---- MODULE Spec2Model ----
(***************************************************************************)
(* Model of network_attacks.py: the four attack strategies that remove     *)
(* nodes from a graph step by step and the metrics taken after every       *)
(* removal.                                                                *)
(*                                                                         *)
(* A graph is a record [nodes, edges]: nodes is the sequence of node ids   *)
(* in the graph's iteration order (networkx iterates nodes in insertion    *)
(* order), edges a set of two-element sets (simple undirected graph).      *)
(* A rate is a pair <<num, den>> of a dyadic fraction; for these the       *)
(* float products and quotients of the code are exact, so int() is the     *)
(* integer floor computed here.  A number computed by numpy is a pair      *)
(* <<num, den>>; den = 0 stands for a slot without a value (nan, or a      *)
(* masked entry).  A sample (a numpy array of path lengths) is kept as the *)
(* function value |-> number of occurrences: the quantiles and the mean    *)
(* read the sorted array only.                                             *)
(***************************************************************************)
EXTENDS Integers, Sequences, FiniteSets, TLC

\* Largest number of nodes of an input graph.
MaxNodes == 3

\* Largest length of a caller-supplied list of removal rates.
MaxSteps == 2

\* Largest number of nodes of a cycle graph of the cycle scenario.
MaxCycle == 10

\* The removal rates the inputs are drawn from: 0, 1/4, 1/2, 3/4, 1, 3/2.
RateSet == {<<0, 1>>, <<1, 4>>, <<1, 2>>, <<3, 4>>, <<1, 1>>, <<3, 2>>}

\* The removal rates of the cycle scenario: 1/4, 1/2.
CycleRates == {<<1, 4>>, <<1, 2>>}

Strategies == {"incremental_random_failure", "instantaneous_random_failure",
               "instantaneous_attack", "incremental_attack"}

(* Graph capabilities used by the code (networkx).                         *)

SeqToSet(s) == {s[i] : i \in 1..Len(s)}

RECURSIVE SumSeq(_)
SumSeq(s) == IF s = <<>> THEN 0 ELSE Head(s) + SumSeq(Tail(s))

Min2(a, b) == IF a < b THEN a ELSE b
Max2(a, b) == IF a > b THEN a ELSE b

\* list(net.nodes)
NodeList(g) == g.nodes

\* nx.degree(net, node)
Degree(g, u) == Cardinality({e \in g.edges : u \in e})

Neighbors(g, u) == {v \in SeqToSet(g.nodes) : {u, v} \in g.edges}

\* net.remove_nodes_from(removed): the nodes and their incident edges go,
\* the order of the remaining nodes is kept; unknown nodes are ignored.
RemoveNodesFrom(g, removed) ==
    LET gone == SeqToSet(removed)
    IN  [nodes |-> SelectSeq(g.nodes, LAMBDA v : v \notin gone),
         edges |-> {e \in g.edges : e \cap gone = {}}]

\* copy.deepcopy(net): an independent graph with the same nodes and edges.
DeepCopy(g) == [nodes |-> g.nodes, edges |-> g.edges]

\* Breadth-first search from a node: acc[k+1] is the set of nodes at
\* distance k (what nx.shortest_path_length yields for one source).
RECURSIVE BFSLayers(_, _, _, _)
BFSLayers(g, seen, frontier, acc) ==
    IF frontier = {} THEN acc
    ELSE LET next == (UNION {Neighbors(g, u) : u \in frontier}) \ seen
         IN  BFSLayers(g, seen \cup next, next, Append(acc, frontier))

SingleSourceLengths(g, u) == BFSLayers(g, {u}, {u}, <<>>)

\* _plain_bfs(G, source): the nodes reachable from source.
PlainBfs(g, u) == UNION SeqToSet(SingleSourceLengths(g, u))

\* Variant: the connectivity test inverted.
IsNotConnected(g) ==
    Cardinality(PlainBfs(g, g.nodes[1])) # Len(g.nodes)

\* nx.is_connected(net), for a graph with at least one node (the null graph
\* raises NetworkXPointlessConcept, see MetricsRaise).
IsConnected(g) ==
    Cardinality(PlainBfs(g, g.nodes[1])) = Len(g.nodes)

\* nx.connected_components(net): one component per first unseen node, in
\* node iteration order.
RECURSIVE ComponentsFrom(_, _, _, _)
ComponentsFrom(g, i, seen, acc) ==
    IF i > Len(g.nodes) THEN acc
    ELSE IF g.nodes[i] \in seen THEN ComponentsFrom(g, i + 1, seen, acc)
    ELSE LET c == PlainBfs(g, g.nodes[i])
         IN  ComponentsFrom(g, i + 1, seen \cup c, Append(acc, c))

ConnectedComponents(g) == ComponentsFrom(g, 1, {}, <<>>)

\* net.subgraph(component)
Subgraph(g, c) ==
    [nodes |-> SelectSeq(g.nodes, LAMBDA v : v \in c),
     edges |-> {e \in g.edges : e \subseteq c}]

\* nx.eccentricity(net)[u] in a connected graph: the largest distance.
Eccentricity(g, u) == Len(SingleSourceLengths(g, u)) - 1

\* sorted(..., key=..., reverse=True) / list.sort(key=..., reverse=True) on
\* a sequence of pairs <<element, key>>: descending by key, the elements of
\* equal key keep their order (the sort is stable).
SortedReverse(s) ==
    LET n == Len(s)
        rank(i) == Cardinality({j \in 1..n : s[j][2] > s[i][2]})
                   + Cardinality({j \in 1..(i - 1) : s[j][2] = s[i][2]}) + 1
    IN  [p \in 1..n |-> s[CHOOSE i \in 1..n : rank(i) = p]]

\* The elements of a sequence of pairs <<element, key>>.
Elements(s) == [i \in 1..Len(s) |-> s[i][1]]

(* Samples and their summary statistics (numpy, scipy.stats.mstats).       *)

\* A slot without a value: np.mean of an empty array (nan), a masked entry.
NoValue == <<0, 0>>

SampleSize(h) == SumSeq([i \in 1..Cardinality(DOMAIN h) |-> h[i - 1]])

SampleTotal(h) == SumSeq([i \in 1..Cardinality(DOMAIN h) |-> (i - 1) * h[i - 1]])

\* x = np.sort(sample), as a sequence (x[1] is the smallest value).
RECURSIVE SortedFrom(_, _)
SortedFrom(h, d) ==
    IF d \notin DOMAIN h THEN <<>>
    ELSE [i \in 1..h[d] |-> d] \o SortedFrom(h, d + 1)

NpSort(h) == SortedFrom(h, 0)

\* np.mean(sample)
Mean(h) == IF SampleSize(h) = 0 THEN NoValue ELSE <<SampleTotal(h), SampleSize(h)>>

\* One entry of _quantiles1D in mstats.mquantiles, x the sorted sample,
\* with alphap = betap = 0.4, at the probability p for which
\* 20 * (n * p + m) = a * n + b
\* (p = 0.25: 5n + 9, p = 0.5: 10n + 10, p = 0.75: 15n + 11).
Quantile1D(x, a, b) ==
    LET n == Len(x)
        aleph == a * n + b
        k == Min2(Max2(aleph, 20), 20 * (n - 1)) \div 20
        gamma == Min2(Max2(aleph - 20 * k, 0), 20)
    IN  IF n = 0 THEN NoValue
        ELSE IF n = 1 THEN <<x[1], 1>>
        ELSE <<(20 - gamma) * x[k] + gamma * x[k + 1], 20>>

QuantilesOfSorted(x) ==
    <<Quantile1D(x, 5, 9), Quantile1D(x, 10, 10), Quantile1D(x, 15, 11)>>

\* mstats.mquantiles(sample, axis=0): the 25%, 50% and 75% quantiles.
Mquantiles(h) == QuantilesOfSorted(NpSort(h))

\* quantiles[1] = np.mean(sample): the mean replaces the median slot.
QuantileTriple(h) == [Mquantiles(h) EXCEPT ![2] = Mean(h)]


(* get_attack_metrics                                                      *)

\* shortest_path_list: every finite path length between ordered pairs of
\* nodes, the zero lengths dropped (shortest_path_list > 0).
PathLengthCounts(layers, n) ==
    [d \in 0..(n - 1) |->
        IF d > 0
        THEN SumSeq([i \in 1..n |->
                 IF d + 1 <= Len(layers[i]) THEN Cardinality(layers[i][d + 1]) ELSE 0])
        ELSE 0]

ShortestPathSample(g) ==
    PathLengthCounts([i \in 1..Len(g.nodes) |-> SingleSourceLengths(g, g.nodes[i])],
                     Len(g.nodes))

\* nodes_eccentricity of a connected graph sub, as a sample over 0..n-1.
EccentricityCounts(ecc, n) ==
    [d \in 0..(n - 1) |-> Cardinality({i \in DOMAIN ecc : ecc[i] = d})]

EccentricitySample(sub, n) ==
    EccentricityCounts([i \in 1..Len(sub.nodes) |-> Eccentricity(sub, sub.nodes[i])], n)

\* Variant: components[2:], the slice started one component too late.
OtherComponentsFromThird(components) == SubSeq(components, 3, Len(components))

\* components[1:], the components the average is taken over.

OtherComponents(components) == Tail(components)

\* np.mean([len(x) for x in ...])
MeanOfSizes(cs) ==
    IF Len(cs) = 0 THEN NoValue
    ELSE <<SumSeq([i \in 1..Len(cs) |-> Cardinality(cs[i])]), Len(cs)>>

\* nx.is_connected raises NetworkXPointlessConcept on the null graph.
MetricsRaise(g) == Len(g.nodes) = 0

\* Variant: the components left in the order they are found, not sorted.
UnsortedComponents(g) == ConnectedComponents(g)

\* sorted(nx.connected_components(net), key=len, reverse=True)
SortedComponents(g) ==
    LET cs == ConnectedComponents(g)
    IN  Elements(SortedReverse([i \in 1..Len(cs) |-> <<cs[i], Cardinality(cs[i])>>]))

\* The branch taken when the graph is not connected, components sorted
\* by size, largest first.
DisconnectedMetrics(g, components) ==
    [shortest_paths |-> ShortestPathSample(g),
     eccentricities |-> EccentricitySample(Subgraph(g, components[1]), Len(g.nodes)),
     cluster_sizes  |-> <<<<Cardinality(components[1]), Len(g.nodes)>>,
                          MeanOfSizes(OtherComponents(components))>>]

GetAttackMetrics(g) ==
    IF IsConnected(g)
    THEN [shortest_paths |-> ShortestPathSample(g),
          eccentricities |-> EccentricitySample(g, Len(g.nodes)),
          cluster_sizes  |-> <<<<1, 1>>, <<1, 1>>>>]
    ELSE DisconnectedMetrics(g, SortedComponents(g))

(* The strategies                                                          *)

VARIABLES
    strategy,            \* the function called
    net,                 \* the caller's graph object
    removal_rate,        \* incremental_random_failure: argument
    max_rate,            \* incremental_random_failure: argument (default 0.5)
    removal_rates,       \* the list of rates the loop iterates over
    attacked_net,        \* the working graph
    original_net_size,
    idx,                 \* number of loop iterations entered
    nodes,               \* list(attacked_net.nodes) of the current iteration
    connectivities,      \* sorted (node, degree) pairs of the current iteration
    num_removed_nodes,   \* int(original_net_size * ratio_removed)
    removed_nodes,
    metrics,             \* result of the last get_attack_metrics call
    min_path,
    max_path,
    cluster_size_ratios,
    pc,                  \* "call", "loop", "returned" or "raised"
    exception            \* the exception raised, "" if none

vars == <<strategy, net, removal_rate, max_rate, removal_rates, attacked_net,
          original_net_size, idx, nodes, connectivities, num_removed_nodes,
          removed_nodes, metrics, min_path, max_path, cluster_size_ratios,
          pc, exception>>

Incremental == {"incremental_random_failure", "incremental_attack"}
Instantaneous == {"instantaneous_random_failure", "instantaneous_attack"}
Targeted == {"instantaneous_attack", "incremental_attack"}

\* The graphs on the nodes 1..n, iterated in that order.
GraphsOn(n) ==
    {[nodes |-> [i \in 1..n |-> i], edges |-> es] :
        es \in SUBSET ({{u, v} : u \in 1..n, v \in 1..n} \ {{u} : u \in 1..n})}

\* nx.cycle_graph(n)
CycleGraph(n) ==
    [nodes |-> [i \in 1..n |-> i],
     edges |-> {{i, (i % n) + 1} : i \in 1..n}]

RateLists(rates, len) == UNION {[1..k -> rates] : k \in 0..len}

\* An unbound local variable holding a graph.
NoGraph == [nodes |-> <<>>, edges |-> {}]

NoMetrics == [shortest_paths |-> <<>>, eccentricities |-> <<>>,
              cluster_sizes |-> <<NoValue, NoValue>>]

\* min_path / max_path: None (ndim 0), one triple (ndim 1, a flat array of
\* three numbers, kept in rows[1]) or a matrix of triples (ndim 2).
NonePath == [ndim |-> 0, rows |-> <<>>]

\* np.vstack([path, row]) if path is not None else row
Vstack(path, row) ==
    IF path.ndim = 0 THEN [ndim |-> 1, rows |-> <<row>>]
    ELSE [ndim |-> 2, rows |-> Append(path.rows, row)]

\* len(path): the number of entries along the first axis.
PathLen(path) == IF path.ndim = 1 THEN 3 ELSE Len(path.rows)

Locals0 ==
    /\ attacked_net = NoGraph
    /\ original_net_size = 0
    /\ idx = 0
    /\ nodes = <<>>
    /\ connectivities = <<>>
    /\ num_removed_nodes = 0
    /\ removed_nodes = <<>>
    /\ metrics = NoMetrics
    /\ min_path = NonePath
    /\ max_path = NonePath
    /\ cluster_size_ratios = <<>>
    /\ pc = "call"
    /\ exception = ""

\* The arguments of a call, the rates drawn from `rates`, a rate list of at
\* most len entries.  Where a strategy has no such argument the variable
\* keeps one fixed value.
Arguments(rates, len) ==
    /\ strategy \in Strategies
    /\ IF strategy = "incremental_random_failure"
       THEN /\ removal_rate \in rates
            /\ max_rate \in rates
            /\ removal_rates = <<>>
       ELSE /\ removal_rate = <<0, 1>>
            /\ max_rate = <<1, 2>>
            /\ removal_rates \in RateLists(rates, len)

Init ==
    /\ net \in UNION {GraphsOn(n) : n \in 0..MaxNodes}
    /\ Arguments(RateSet, MaxSteps)
    /\ Locals0


\* Variant: one step more than int(max_rate / removal_rate).
StepsInclusive(maxr, rate) == (maxr[1] * rate[2]) \div (maxr[2] * rate[1]) + 1

\* int(max_rate / removal_rate), for removal_rate > 0
Steps(maxr, rate) == (maxr[1] * rate[2]) \div (maxr[2] * rate[1])

\* Variant: the product rounded up instead of truncated.
NumRemovedRoundedUp(size, rate) == (size * rate[1] + rate[2] - 1) \div rate[2]

\* int(original_net_size * ratio_removed)
NumRemoved(size, rate) == (size * rate[1]) \div rate[2]

\* Variant: every strategy works on the caller's object, none on a copy.
CallerGraphShared(strat, g, attacked) == attacked

\* The caller's graph object once the working graph has become `attacked`:
\* the incremental strategies work on the caller's object itself
\* (attacked_net = net), the instantaneous ones on a deep copy of it.
CallerGraph(strat, g, attacked) ==
    IF strat \in Incremental THEN attacked ELSE g

\* Variant: the sort without reverse=True (ascending, stable).
ConnectivitiesAscending(g, ns) ==
    LET negated == SortedReverse([i \in 1..Len(ns) |-> <<ns[i], 0 - Degree(g, ns[i])>>])
    IN  [i \in 1..Len(ns) |-> <<negated[i][1], 0 - negated[i][2]>>]

\* connectivities = [(node, nx.degree(attacked_net, node)) for node in nodes]
\* connectivities.sort(key=lambda x: x[1], reverse=True)
Connectivities(g, ns) ==
    SortedReverse([i \in 1..Len(ns) |-> <<ns[i], Degree(g, ns[i])>>])

\* removed_nodes = [x[0] for x in connectivities[:num_removed_nodes]]
\* (a slice stops at the end of the list)
TopNodes(conn, count) ==
    Elements(SubSeq(conn, 1, Min2(count, Len(conn))))

\* random.sample(nodes, count) raises ValueError when count > len(nodes).
SampleRaises(ns, count) == count > Len(ns) \/ count < 0

\* The results random.sample(nodes, count) can give, each as the list of
\* the chosen nodes in node order (only the set chosen is ever used).
Samples(ns, count) ==
    {SelectSeq(ns, LAMBDA v : v \in S) :
        S \in {T \in SUBSET SeqToSet(ns) : Cardinality(T) = count}}

\* The end of a loop body once the metrics m are there: both quantile
\* triples and the cluster sizes are appended to the results.
AppendMetrics(m) ==
    /\ metrics' = m
    /\ min_path' = Vstack(min_path, QuantileTriple(m.shortest_paths))
    /\ max_path' = Vstack(max_path, QuantileTriple(m.eccentricities))
    /\ cluster_size_ratios' = Append(cluster_size_ratios, m.cluster_sizes)
    /\ UNCHANGED <<pc, exception>>

\* The end of a loop body, from get_attack_metrics(attacked_net) on.
MeasureAndAppend(g) ==
    IF MetricsRaise(g)
    THEN /\ pc' = "raised"
         /\ exception' = "NetworkXPointlessConcept"
         /\ UNCHANGED <<metrics, min_path, max_path, cluster_size_ratios>>
    ELSE AppendMetrics(GetAttackMetrics(g))

\* A loop body that selects the nodes at random, on the working graph g.
RandomFailureBody(g) ==
    LET count == NumRemoved(original_net_size, removal_rates[idx + 1])
    IN  /\ idx' = idx + 1
        /\ nodes' = NodeList(g)
        /\ num_removed_nodes' = count
        /\ UNCHANGED <<strategy, removal_rate, max_rate, removal_rates,
                       original_net_size, connectivities>>
        /\ IF SampleRaises(NodeList(g), count)
           THEN /\ attacked_net' = g
                /\ net' = CallerGraph(strategy, net, g)
                /\ pc' = "raised"
                /\ exception' = "ValueError"
                /\ UNCHANGED <<removed_nodes, metrics, min_path, max_path,
                               cluster_size_ratios>>
           ELSE \E sample \in Samples(NodeList(g), count) :
                    /\ removed_nodes' = sample
                    /\ attacked_net' = RemoveNodesFrom(g, sample)
                    /\ net' = CallerGraph(strategy, net, attacked_net')
                    /\ MeasureAndAppend(attacked_net')

\* A loop body that selects the nodes of highest degree, on the working graph g.
AttackBody(g) ==
    LET conn == Connectivities(g, NodeList(g))
        count == NumRemoved(original_net_size, removal_rates[idx + 1])
        removed == TopNodes(conn, count)
    IN  /\ idx' = idx + 1
        /\ nodes' = NodeList(g)
        /\ connectivities' = conn
        /\ num_removed_nodes' = count
        /\ removed_nodes' = removed
        /\ attacked_net' = RemoveNodesFrom(g, removed)
        /\ net' = CallerGraph(strategy, net, attacked_net')
        /\ UNCHANGED <<strategy, removal_rate, max_rate, removal_rates,
                       original_net_size>>
        /\ MeasureAndAppend(attacked_net')

\* The code before the loop of the three strategies that take a rate list.
Prologue(working) ==
    /\ pc = "call"
    /\ pc' = "loop"
    /\ attacked_net' = working
    /\ original_net_size' = Len(net.nodes)
    /\ UNCHANGED <<strategy, net, removal_rate, max_rate, removal_rates, idx,
                   nodes, connectivities, num_removed_nodes, removed_nodes,
                   metrics, min_path, max_path, cluster_size_ratios, exception>>

InLoop(strat) ==
    /\ strategy = strat
    /\ pc = "loop"
    /\ idx < Len(removal_rates)

\* incremental_random_failure up to the loop: steps is computed once; the
\* division raises ZeroDivisionError for a removal rate of 0.
EnterIncrementalRandomFailure ==
    /\ strategy = "incremental_random_failure"
    /\ pc = "call"
    /\ attacked_net' = net
    /\ original_net_size' = Len(net.nodes)
    /\ IF removal_rate[1] = 0
       THEN /\ pc' = "raised"
            /\ exception' = "ZeroDivisionError"
            /\ UNCHANGED removal_rates
       ELSE /\ pc' = "loop"
            /\ removal_rates' = [i \in 1..Steps(max_rate, removal_rate) |-> removal_rate]
            /\ UNCHANGED exception
    /\ UNCHANGED <<strategy, net, removal_rate, max_rate, idx, nodes,
                   connectivities, num_removed_nodes, removed_nodes, metrics,
                   min_path, max_path, cluster_size_ratios>>

IncrementalRandomFailureStep ==
    /\ InLoop("incremental_random_failure")
    /\ RandomFailureBody(attacked_net)

EnterInstantaneousRandomFailure ==
    /\ strategy = "instantaneous_random_failure"
    /\ Prologue(attacked_net)

InstantaneousRandomFailureStep ==
    /\ InLoop("instantaneous_random_failure")
    /\ RandomFailureBody(DeepCopy(net))

EnterInstantaneousAttack ==
    /\ strategy = "instantaneous_attack"
    /\ Prologue(attacked_net)

InstantaneousAttackStep ==
    /\ InLoop("instantaneous_attack")
    /\ AttackBody(DeepCopy(net))

EnterIncrementalAttack ==
    /\ strategy = "incremental_attack"
    /\ Prologue(net)

IncrementalAttackStep ==
    /\ InLoop("incremental_attack")
    /\ AttackBody(attacked_net)

\* return min_path, max_path, cluster_size_ratios
Return ==
    /\ pc = "loop"
    /\ idx = Len(removal_rates)
    /\ pc' = "returned"
    /\ UNCHANGED <<strategy, net, removal_rate, max_rate, removal_rates,
                   attacked_net, original_net_size, idx, nodes, connectivities,
                   num_removed_nodes, removed_nodes, metrics, min_path,
                   max_path, cluster_size_ratios, exception>>

Next ==
    \/ EnterIncrementalRandomFailure
    \/ IncrementalRandomFailureStep
    \/ EnterInstantaneousRandomFailure
    \/ InstantaneousRandomFailureStep
    \/ EnterInstantaneousAttack
    \/ InstantaneousAttackStep
    \/ EnterIncrementalAttack
    \/ IncrementalAttackStep
    \/ Return

Spec == Init /\ [][Next]_vars

\* The strategies on the graphs nx.cycle_graph(n) (the null graph for
\* n = 0, one edge for n = 2, a ring from n = 3 on; n = 1 has a self-loop and
\* is left out), with rate lists of at most one entry.
InitCycle ==
    /\ net \in {CycleGraph(n) : n \in (0..MaxCycle) \ {1}}
    /\ Arguments(CycleRates, 1)
    /\ Locals0

SpecCycle == InitCycle /\ [][Next]_vars


(* Properties                                                              *)

NodeSet(g) == SeqToSet(g.nodes)

\* No edge of g leaves the node set S.
Closed(g, S) == \A e \in g.edges : e \cap S = {} \/ e \subseteq S

\* g is connected: every proper non-empty part of it has an edge leaving it.
ConnectedByCuts(g) ==
    \A S \in SUBSET NodeSet(g) : (S # {} /\ S # NodeSet(g)) => ~Closed(g, S)

\* The connected components of g: the minimal non-empty closed node sets.
ComponentSets(g) ==
    {S \in SUBSET NodeSet(g) :
        /\ S # {}
        /\ Closed(g, S)
        /\ \A T \in SUBSET S : (T # {} /\ T # S) => ~Closed(g, T)}

LargestComponentSize(g) ==
    CHOOSE m \in 1..Len(g.nodes) :
        /\ \E S \in ComponentSets(g) : Cardinality(S) = m
        /\ \A S \in ComponentSets(g) : Cardinality(S) <= m

\* The last loop iteration entered ran to its end, so that metrics is the
\* result of get_attack_metrics on the graph attacked_net.
StepCompleted == idx >= 1 /\ Len(cluster_size_ratios) = idx

\* floor(original_net_size * rate) of the last loop iteration entered.
RequestedCount ==
    (original_net_size * removal_rates[idx][1]) \div removal_rates[idx][2]

\* C1: in instantaneous_random_failure and instantaneous_attack no step
\* changes the caller's graph: its nodes (and edges) after any step are the
\* ones before it, every removal being applied to the per-step copy.
C1_OriginalGraphUntouched ==
    [][(strategy \in Instantaneous) => (net' = net)]_vars

\* C1 witness: an instantaneous strategy has returned after two steps, the
\* last of which removed nodes from its copy.
C1_Witness ==
    /\ strategy \in Instantaneous
    /\ pc = "returned"
    /\ idx = 2
    /\ Len(removed_nodes) > 0
    /\ Len(attacked_net.nodes) < Len(net.nodes)
    /\ Len(net.nodes) = original_net_size

\* C2 as stated: in the incremental strategies every step that starts with
\* nodes left and asks for no more nodes than there are lowers the node
\* count of the persistent graph by exactly floor(original_size * rate),
\* strictly, and leaves a strict subset of the nodes the step started with.
C2_StrictDecreaseByCount ==
    (strategy \in Incremental /\ idx >= 1
        /\ Len(nodes) >= 1 /\ RequestedCount <= Len(nodes)) =>
        /\ Len(attacked_net.nodes) = Len(nodes) - RequestedCount
        /\ Len(attacked_net.nodes) < Len(nodes)
        /\ NodeSet(attacked_net) \subseteq SeqToSet(nodes)
        /\ NodeSet(attacked_net) # SeqToSet(nodes)

\* C2 amended: in the incremental strategies a step whose removal is
\* carried out lowers the node count by exactly the smaller of
\* floor(original_size * rate) and the node count before the step, and
\* leaves a subset of the nodes it started with, a strict one exactly when
\* that number is positive.  incremental_random_failure carries out no
\* removal that asks for more nodes than there are: random.sample raises
\* ValueError and the graph stays as it was.
C2_DecreaseByCountOrAllNodes ==
    (strategy \in Incremental /\ idx >= 1) =>
        IF exception = "ValueError"
        THEN /\ strategy = "incremental_random_failure"
             /\ RequestedCount > Len(nodes)
             /\ attacked_net.nodes = nodes
        ELSE /\ Len(attacked_net.nodes)
                    = Len(nodes) - Min2(RequestedCount, Len(nodes))
             /\ NodeSet(attacked_net) \subseteq SeqToSet(nodes)
             /\ (NodeSet(attacked_net) # SeqToSet(nodes))
                    <=> (Min2(RequestedCount, Len(nodes)) > 0)
             /\ strategy = "incremental_random_failure"
                    => RequestedCount <= Len(nodes)
             /\ net = attacked_net

\* C2 witness: incremental_attack has completed a second step that removed
\* nodes and left some.
C2_Witness ==
    /\ strategy = "incremental_attack"
    /\ idx = 2
    /\ StepCompleted
    /\ RequestedCount > 0
    /\ Len(attacked_net.nodes) = Len(nodes) - RequestedCount
    /\ Len(nodes) < original_net_size

\* C3: in instantaneous_attack and incremental_attack every step removes
\* nodes whose degree, in the working graph before the removal, is at least
\* the degree of every node kept, and of two nodes of equal degree the one
\* earlier in the node order is the one removed.
C3_HighestDegreeRemoved ==
    [][(strategy \in Targeted /\ pc = "loop" /\ idx' = idx + 1) =>
        LET before == IF strategy = "incremental_attack" THEN attacked_net ELSE net
            removed == SeqToSet(removed_nodes')
            kept == NodeSet(attacked_net')
            pos(v) == CHOOSE i \in 1..Len(before.nodes) : before.nodes[i] = v
        IN  /\ removed \cup kept = NodeSet(before)
            /\ removed \cap kept = {}
            /\ \A r \in removed : \A t \in kept :
                  /\ Degree(before, r) >= Degree(before, t)
                  /\ Degree(before, r) = Degree(before, t) => pos(r) < pos(t)
    ]_vars

\* C3 witness: a degree-targeted step removed some nodes and kept others,
\* one kept node of lower degree than a removed one and one kept node of
\* the same degree as a removed one.
C3_Witness ==
    /\ strategy \in Targeted
    /\ idx >= 1
    /\ \E i \in 1..Len(removed_nodes) :
         \E j \in (Len(removed_nodes) + 1)..Len(connectivities) :
            connectivities[i][2] > connectivities[j][2]
    /\ \E i \in 1..Len(removed_nodes) :
         \E j \in (Len(removed_nodes) + 1)..Len(connectivities) :
            connectivities[i][2] = connectivities[j][2]

\* C4: the relative size of the largest cluster that get_attack_metrics
\* reports for a graph is the node count of its largest component over its
\* node count, lies in (0, 1], and is 1 exactly when the graph is connected.
C4_RelativeSizeOfLargest ==
    StepCompleted =>
        LET rel == metrics.cluster_sizes[1]
        IN  /\ rel[2] > 0
            /\ 0 < rel[1]
            /\ rel[1] <= rel[2]
            /\ (rel[1] = rel[2]) <=> ConnectedByCuts(attacked_net)
            /\ rel[1] * Len(attacked_net.nodes)
                   = LargestComponentSize(attacked_net) * rel[2]

\* C4 witness: metrics were taken of a graph that is not connected and
\* whose largest component has two nodes.
C4_Witness ==
    /\ StepCompleted
    /\ ~ConnectedByCuts(attacked_net)
    /\ LargestComponentSize(attacked_net) = 2
    /\ metrics.cluster_sizes[1][1] < metrics.cluster_sizes[1][2]

\* C5 as stated: incremental_random_failure with removal_rate = 1/4 and
\* max_rate = 1/2 never raises and returns after exactly 2 completed steps,
\* whatever the size of the graph.
C5_TwoStepsAnySize ==
    (strategy = "incremental_random_failure"
        /\ removal_rate = <<1, 4>> /\ max_rate = <<1, 2>>) =>
        /\ pc # "raised"
        /\ pc = "returned" => (idx = 2 /\ Len(cluster_size_ratios) = 2)

\* C5 amended: incremental_random_failure iterates over a list of
\* floor(max_rate / removal_rate) rates fixed before the loop and returns
\* only after all of them; with removal_rate = 1/4 and max_rate = 1/2 on a
\* graph with at least one node it never raises and returns after exactly
\* 2 completed steps.
C5_FixedStepCount ==
    (strategy = "incremental_random_failure" /\ pc # "call") =>
        /\ pc \in {"loop", "returned"} =>
              /\ Len(removal_rates)
                     = (max_rate[1] * removal_rate[2]) \div (max_rate[2] * removal_rate[1])
              /\ idx <= Len(removal_rates)
        /\ pc = "returned" =>
              (idx = Len(removal_rates) /\ Len(cluster_size_ratios) = idx)
        /\ (removal_rate = <<1, 4>> /\ max_rate = <<1, 2>> /\ original_net_size >= 1) =>
              /\ pc # "raised"
              /\ pc = "returned" => (idx = 2 /\ Len(cluster_size_ratios) = 2)

\* C5 witness: the call with removal_rate = 1/4 and max_rate = 1/2 on a
\* graph of 8 nodes has returned, two nodes removed in each of its 2 steps.
C5_Witness ==
    /\ strategy = "incremental_random_failure"
    /\ removal_rate = <<1, 4>>
    /\ max_rate = <<1, 2>>
    /\ pc = "returned"
    /\ original_net_size = 8
    /\ Len(attacked_net.nodes) = 4
    /\ Len(cluster_size_ratios) = 2

\* C6 as stated: whenever a step asks for more nodes than the working graph
\* has, the call has been rejected with an error, and no node was removed
\* and no metrics were appended before that (the count is never clamped to
\* the nodes that remain).
C6_OverRemovalRejectedBeforeLoop ==
    (idx >= 1 /\ num_removed_nodes > Len(nodes)) =>
        /\ pc = "raised"
        /\ removed_nodes = <<>>
        /\ cluster_size_ratios = <<>>
        /\ Len(nodes) = original_net_size
        /\ attacked_net.nodes = nodes

\* C7 as stated: incremental_attack on the 10-node cycle with the rates
\* [1/2] removes 5 nodes and reports a largest cluster of relative size at
\* most 0.2.
C7_CycleFallsApart ==
    (strategy = "incremental_attack" /\ original_net_size = 10
        /\ removal_rates = <<(<<1, 2>>)>> /\ pc = "returned") =>
        /\ Len(removed_nodes) = 5
        /\ Len(cluster_size_ratios) = 1
        /\ 5 * cluster_size_ratios[1][1][1] <= cluster_size_ratios[1][1][2]

\* C7 amended: incremental_attack on the 10-node cycle with the rates [1/2]
\* removes the first 5 nodes of the node order (all nodes have degree 2),
\* which leaves the path of the last 5 nodes; that graph is connected, so
\* the single cluster-size summary is (1.0, 1.0).
C7_CycleLeavesPath ==
    (strategy = "incremental_attack" /\ original_net_size = 10
        /\ removal_rates = <<(<<1, 2>>)>> /\ pc = "returned") =>
        /\ removed_nodes = <<1, 2, 3, 4, 5>>
        /\ attacked_net = [nodes |-> <<6, 7, 8, 9, 10>>,
                           edges |-> {{6, 7}, {7, 8}, {8, 9}, {9, 10}}]
        /\ cluster_size_ratios = <<(<<(<<1, 1>>), (<<1, 1>>)>>)>>

\* C7 witness: that call has returned.
C7_Witness ==
    /\ strategy = "incremental_attack"
    /\ original_net_size = 10
    /\ removal_rates = <<(<<1, 2>>)>>
    /\ pc = "returned"
    /\ Len(attacked_net.nodes) = 5

\* C8 as stated: after k completed steps the sequence of shortest-path
\* triples, the sequence of eccentricity triples and the sequence of
\* cluster-size summaries hold exactly k entries each (None counted as a
\* sequence without entries).
C8_OneEntryPerCompletedStep ==
    LET k == IF pc = "raised" /\ idx >= 1 THEN idx - 1 ELSE idx
    IN  /\ Len(cluster_size_ratios) = k
        /\ PathLen(min_path) = k
        /\ PathLen(max_path) = k

\* C9 as stated: every step of instantaneous_attack starts from the
\* untouched original graph, leaves original_size - floor(original_size *
\* rate) nodes, and removes the nodes a call with that rate alone removes.
C9_StepsIndependent ==
    (strategy = "instantaneous_attack" /\ idx >= 1) =>
        /\ nodes = net.nodes
        /\ Len(net.nodes) = original_net_size
        /\ Len(attacked_net.nodes) = original_net_size - RequestedCount
        /\ removed_nodes = TopNodes(Connectivities(net, net.nodes), RequestedCount)
        /\ attacked_net = RemoveNodesFrom(net, removed_nodes)

\* C10: the average size of the other clusters that get_attack_metrics
\* reports for a graph with at least one node is always a number: 1 for a
\* connected graph, and for any other graph the mean of the sizes of its
\* components but the largest, of which there is at least one, so that it
\* lies between 1 and the size of the largest component.
C10_AverageOfOthersDefined ==
    StepCompleted =>
        LET avg == metrics.cluster_sizes[2]
            comps == ComponentSets(attacked_net)
            largest == LargestComponentSize(attacked_net)
        IN  /\ avg[2] > 0
            /\ ConnectedByCuts(attacked_net) => avg = <<1, 1>>
            /\ ~ConnectedByCuts(attacked_net) =>
                  /\ Cardinality(comps) >= 2
                  /\ avg[2] = Cardinality(comps) - 1
                  /\ avg[1] = Len(attacked_net.nodes) - largest
                  /\ avg[2] <= avg[1]
                  /\ avg[1] <= largest * avg[2]

\* C10 witness: metrics were taken of a graph of three components.
C10_Witness ==
    /\ StepCompleted
    /\ Cardinality(ComponentSets(attacked_net)) = 3
    /\ metrics.cluster_sizes[2][2] = 2

====
